---- MODULE Spec2Model ----
(***************************************************************************)
(* A model of the platform MCP gateway: the API client (rate limiting,     *)
(* retries with backoff, response cache), the service registry and the     *)
(* tool binder.  The repository holds the code twice: the package under    *)
(* src/models/ and the single-file program src/main.py.  The variable      *)
(* `build` says which of the two is running; the two differ in the cache   *)
(* (commented out in src/models/platform_api_client.py), in the use_cache  *)
(* argument of the tool handler and in the normalisation of responses.     *)
(***************************************************************************)
EXTENDS Integers, Sequences, FiniteSets, TLC

(***************************************************************************)
(* Bounds of the model.                                                    *)
(***************************************************************************)
MaxCalls == 2
MaxRegs == 2
MaxTime == 61
\* the bounds of the specifications of one part of the program
MaxTries == 1
MaxLoads == 1

(***************************************************************************)
(* Program constants.                                                      *)
(***************************************************************************)
\* _check_rate_limit keeps the timestamps with now - t < 60
Window == 60
\* the clock of the model advances by a whole window at a time, and by the
\* backoff delays
TickStep == Window
\* rate_limit: Optional[int] = None
None == -1
\* session: Optional[ClientSession] = None
NoSession == 0
NoClient == 0

Builds == {"models", "main"}

(***************************************************************************)
(* Values.                                                                 *)
(***************************************************************************)
NoErr == [type |-> "none", status |-> 0, text |-> ""]
NoResult == <<"none", "">>
NoResp == [status |-> -1, body |-> ""]
EmptyMap == <<>>

\* APIEndpoint (models/config/api_endpoint.py); parameters is "ok" for a
\* schema of dicts and "bad" for a schema whose param_info is not a dict
APIEndpoint(path, method, rate_limit, response_format, content_type, parameters) ==
    [path |-> path, method |-> method, rate_limit |-> rate_limit,
     response_format |-> response_format, content_type |-> content_type,
     parameters |-> parameters]

NoEndpoint == APIEndpoint("", "", None, "", "", "")

EpGetX1 == APIEndpoint("x", "GET", 1, "json", "json", "ok")
EpPostX == APIEndpoint("x", "post", None, "raw", "form-data", "ok")
EpPutY == APIEndpoint("y", "PUT", None, "json", "json", "ok")
EpGetY2 == APIEndpoint("y", "GET", 2, "json", "json", "ok")
EpBadParams == APIEndpoint("z", "GET", None, "json", "json", "bad")
EpPostForm == APIEndpoint("f", "POST", None, "json", "form-data", "ok")
EpPostJson == APIEndpoint("g", "POST", None, "raw", "json", "ok")
\* an endpoint whose configured limit is 0
EpGetW0 == APIEndpoint("w", "GET", 0, "json", "json", "ok")
\* two endpoints of one path, as create_user and list_users of
\* create_sample_config (path "users", limits 50 and 200)
EpPostU1 == APIEndpoint("u", "POST", 1, "json", "json", "ok")
EpGetU2 == APIEndpoint("u", "GET", 2, "json", "json", "ok")

\* ServiceConfig (models/config/service_config.py)
ServiceConfig(name, api_key, max_retries, cache_ttl) ==
    [name |-> name, api_key |-> api_key, max_retries |-> max_retries,
     cache_ttl |-> cache_ttl]

\* ServiceDefinition (models/config/service_definition.py); order is the
\* iteration order of the endpoints dict
ServiceDefinition(name, enabled, order, endpoints) ==
    [name |-> name, enabled |-> enabled, order |-> order, endpoints |-> endpoints]

Endpoints1(n1, e1) == n1 :> e1
Endpoints2(n1, e1, n2, e2) == (n1 :> e1) @@ (n2 :> e2)

(***************************************************************************)
(* The configuration files register_service_from_config is given.  parse   *)
(* is "ok" when open(), json.load and the three constructors succeed, and  *)
(* names the failing step otherwise: "nofile" is the FileNotFoundError of  *)
(* open(), "badjson" the JSONDecodeError of json.load.                     *)
(***************************************************************************)
ConfigFiles == {"A1", "A2", "A0", "B1", "B0", "J"}

ConfigFile(parse, service_config, service_def) ==
    [parse |-> parse, service_config |-> service_config, service_def |-> service_def]

File(f) ==
    CASE f = "A1" -> ConfigFile("ok", ServiceConfig("a", "keyA", 3, TickStep),
                ServiceDefinition("a", TRUE, <<"e1", "e2">>,
                    Endpoints2("e1", EpGetX1, "e2", EpPutY)))
      [] f = "A2" -> ConfigFile("ok", ServiceConfig("a", "keyA2", 1, TickStep),
                ServiceDefinition("a", TRUE, <<"e1">>, Endpoints1("e1", EpPostX)))
      [] f = "A0" -> ConfigFile("ok", ServiceConfig("a", "keyA", 3, TickStep),
                ServiceDefinition("a", FALSE, <<"e1">>, Endpoints1("e1", EpGetX1)))
      [] f = "B1" -> ConfigFile("ok", ServiceConfig("b", "keyB", 2, TickStep),
                ServiceDefinition("b", TRUE, <<"e1", "e2">>,
                    Endpoints2("e1", EpGetY2, "e2", EpBadParams)))
      [] f = "B0" -> ConfigFile("ok", ServiceConfig("b", "keyB", 0, TickStep),
                ServiceDefinition("b", TRUE, <<"e1">>, Endpoints1("e1", EpGetY2)))
      [] f = "B2" -> ConfigFile("ok", ServiceConfig("b", "keyB2", 2, TickStep),
                ServiceDefinition("b", TRUE, <<"e1", "e2">>,
                    Endpoints2("e1", EpPostForm, "e2", EpPostJson)))
      [] f = "B3" -> ConfigFile("ok", ServiceConfig("b", "keyB3", 2, TickStep),
                ServiceDefinition("b", TRUE, <<"e1">>, Endpoints1("e1", EpPostJson)))
      [] f = "B4" -> ConfigFile("ok", ServiceConfig("b", "keyB4", 2, TickStep),
                ServiceDefinition("b", TRUE, <<"e1">>, Endpoints1("e1", EpGetW0)))
      [] f = "A3" -> ConfigFile("ok", ServiceConfig("a", "keyA3", 2, TickStep),
                ServiceDefinition("a", TRUE, <<"e1", "e2">>,
                    Endpoints2("e1", EpPostU1, "e2", EpGetU2)))
      [] f = "N" -> ConfigFile("nofile", ServiceConfig("", "", 0, 0),
                ServiceDefinition("", FALSE, <<>>, EmptyMap))
      [] OTHER -> ConfigFile("badjson", ServiceConfig("", "", 0, 0),
                ServiceDefinition("", FALSE, <<>>, EmptyMap))

\* what the try block of register_service_from_config does before it calls
\* register_service: "ok", or the step that raises.  The APIEndpoint of
\* main.py has no content_type field: APIEndpoint(**ep_data) raises a
\* TypeError for a file that gives one.
ParseOutcome(file, b) ==
    IF file.parse # "ok" THEN file.parse
    ELSE IF /\ b = "main"
            /\ \E e \in DOMAIN file.service_def.endpoints :
                  file.service_def.endpoints[e].content_type # "json"
    THEN "badfield"
    ELSE "ok"

ServiceNames == {"a", "b"}
EndpointNames == {"e1", "e2"}
Params == {"p1", "p2"}

(***************************************************************************)
(* What the backend can answer to one HTTP request.  status 0 is a         *)
(* transport-level failure (the request raises before any status).  The    *)
(* body "L1"/"L2" is a JSON object whose data.list is L1/L2, "nodata" a    *)
(* JSON object without a data key, "notjson" a body that is no JSON.       *)
(* "datanull" is {"data": null}, "nolist" {"data": {}}, "listnull"         *)
(* {"data": {"list": null}}, "datastr" {"data": "x"} and "array" a JSON    *)
(* array.                                                                  *)
(***************************************************************************)
Response(status, body) == [status |-> status, body |-> body]

Responses ==
    { Response(200, "L1"), Response(304, "L1"), Response(404, "E1"),
      Response(0, "reset") }

Error(type, status, text) == [type |-> type, status |-> status, text |-> text]

(***************************************************************************)
(* PlatformAPIClient                                                       *)
(***************************************************************************)
\* a constructor whose instances share one mutable window map (a class
\* attribute), so that a new client starts with the timestamps of another
PlatformAPIClient_SharedState(config) ==
    [config |-> config, session |-> NoSession, cache |-> EmptyMap,
     rate_limits |-> ("x" :> <<0>>)]

\* __init__
PlatformAPIClient(config) ==
    [config |-> config, session |-> NoSession, cache |-> EmptyMap,
     rate_limits |-> EmptyMap]

\* hash(param_str) of the canonical JSON of the parameters
ParamHash(params) == IF params = "p1" THEN 11 ELSE 22

\* _get_cache_key
GetCacheKey(path, params) == <<path, ParamHash(params)>>

\* _is_cache_valid
IsCacheValid(cache_entry, cache_ttl, t) == t - cache_entry.timestamp < cache_ttl

\* `if not rate_limit` is taken for None and for 0
Truthy(rate_limit) == rate_limit # None /\ rate_limit # 0

\* the list comprehension of _check_rate_limit
Prune(stamps, t) == SelectSeq(stamps, LAMBDA x : t - x < Window)

\* a check that admits one call too many
WithinLimit_Lax(n, rate_limit) == n <= rate_limit

\* len(self._rate_limits[endpoint]) < rate_limit
WithinLimit(n, rate_limit) == n < rate_limit

\* self._rate_limits after _check_rate_limit(path, rate_limit) at time t
RateLimitsChecked(rate_limits, path, rate_limit, t) ==
    IF ~Truthy(rate_limit) THEN rate_limits
    ELSE [p \in DOMAIN rate_limits \cup {path} |->
            IF p = path
            THEN Prune(IF path \in DOMAIN rate_limits THEN rate_limits[path] ELSE <<>>, t)
            ELSE rate_limits[p]]

\* the value _check_rate_limit returns
CheckRateLimit(rate_limits, path, rate_limit, t) ==
    \/ ~Truthy(rate_limit)
    \/ WithinLimit(Len(RateLimitsChecked(rate_limits, path, rate_limit, t)[path]),
                   rate_limit)

\* endpoint.method.upper()
Upper(method) ==
    CASE method = "get" -> "GET"
      [] method = "post" -> "POST"
      [] method = "put" -> "PUT"
      [] OTHER -> method

\* a form that leaves the credential out
AppKeyField_Missing(api_key) == {}

\* form_data.add_field("appKey", self.config.api_key)
AppKeyField(api_key) == {<<"appKey", api_key>>}

\* what one request carries: the caller's parameters as query string, JSON
\* body or form fields, and the fields the client adds.  main.py sends every
\* POST as JSON.
Request(endpoint, params, config, b) ==
    IF Upper(endpoint.method) = "GET"
    THEN [via |-> "query", params |-> params, extra |-> {}]
    ELSE IF b = "models" /\ endpoint.content_type = "form-data"
    THEN [via |-> "form", params |-> params, extra |-> AppKeyField(config.api_key)]
    ELSE [via |-> "json", params |-> params, extra |-> {}]

\* _handle_response: [ok, value, err].  A request that raised (status 0)
\* never reaches _handle_response: its exception is the attempt's failure.
HandleResponse(response, endpoint, b) ==
    IF response.status = 0
    THEN [ok |-> FALSE, value |-> NoResult,
          err |-> Error("Transport", 0, response.body)]
    ELSE IF response.status >= 400
    THEN [ok |-> FALSE, value |-> NoResult,
          err |-> Error("API", response.status, response.body)]
    ELSE IF endpoint.response_format = "json"
    THEN IF response.body = "notjson"
         THEN [ok |-> FALSE, value |-> NoResult,
               err |-> Error("Parse", 0, "Expecting value")]
         ELSE IF b = "main"
         THEN [ok |-> TRUE, value |-> <<"json", response.body>>, err |-> NoErr]
         ELSE IF response.body \in {"array", "datastr"}
         THEN \* json_resp.get / (data).get on a list or a str
              [ok |-> FALSE, value |-> NoResult,
               err |-> Error("Attribute", 0, "get")]
         ELSE IF response.body \in {"nodata", "datanull", "nolist"}
         THEN [ok |-> TRUE, value |-> <<"list", "empty">>, err |-> NoErr]
         ELSE IF response.body = "listnull"
         THEN \* .get("list", []) of a dict that holds the key: its value
              [ok |-> TRUE, value |-> <<"null", "">>, err |-> NoErr]
         ELSE [ok |-> TRUE, value |-> <<"list", response.body>>, err |-> NoErr]
    ELSE [ok |-> TRUE, value |-> <<"content", response.body>>, err |-> NoErr]

\* a backoff that does not grow
Backoff_Constant(attempt) == 1

\* asyncio.sleep(2 ** attempt)
Backoff(attempt) == 2 ^ attempt

\* a last-attempt test that is off by one
IsLastAttempt_Late(attempt, max_retries) == attempt = max_retries

\* attempt == self.config.max_retries - 1
IsLastAttempt(attempt, max_retries) == attempt = max_retries - 1

(***************************************************************************)
(* One invocation: a tool call through handler_func ("tool") or a call of  *)
(* call_api inside `async with client` by another caller ("api").          *)
(*   pc       idle, http (a request is in flight), sleep (backoff), done   *)
(*   attempt  the loop variable of `for attempt in range(max_retries)`     *)
(*   http     requests sent; sleeps: the backoff delays slept so far       *)
(*   reqs     what each request sent carried                               *)
(*   loop     the event loop of the thread handler_func is called on:      *)
(*            none, idle (set, not running), running; runner: what runs    *)
(*            execute_api_call                                             *)
(*   fails    attempts that raised; local: those that raised without a     *)
(*            request (unsupported method, unusable session)               *)
(*   outcome  of call_api: none, ok, exc; ret: what the invoker gets:      *)
(*            json / failmsg / unavailable (strings), value, raised        *)
(***************************************************************************)
IdleCall ==
    [pc |-> "idle", kind |-> "", svc |-> "", epn |-> "", params |-> "",
     use_cache |-> FALSE, client |-> NoClient, endpoint |-> NoEndpoint,
     sess |-> NoSession, attempt |-> 0, wake |-> 0, http |-> 0, sleeps |-> <<>>,
     fails |-> 0, local |-> 0, last |-> NoResp, outcome |-> "none",
     err |-> NoErr, result |-> NoResult, ret |-> "none", t0 |-> 0,
     hit |-> FALSE, stamped |-> FALSE, wrote |-> FALSE, tEnd |-> 0,
     reqs |-> <<>>, loop |-> "", runner |-> ""]

\* what handler_func hands back for an outcome of call_api
ToolReturn(kind, outcome) ==
    IF kind = "tool"
    THEN (IF outcome = "ok" THEN "json" ELSE "failmsg")
    ELSE (IF outcome = "ok" THEN "value" ELSE "raised")

\* call_api raises e: the call is over
Raise(cl, k, e, t) ==
    [cl |-> cl,
     k |-> [k EXCEPT !.pc = "done", !.outcome = "exc", !.err = e, !.tEnd = t,
                     !.ret = ToolReturn(k.kind, "exc")]]

\* lines 127-138 (main.py 164-175): after the loop
Finish(cl, k, has, value, t, b) ==
    LET ep == k.endpoint
        stamp == Truthy(ep.rate_limit)
        cl1 == IF stamp
               THEN [cl EXCEPT !.rate_limits[ep.path] = Append(@, t)]
               ELSE cl
        k1 == [k EXCEPT !.stamped = stamp]
        write == b = "main" /\ k.use_cache
        key == GetCacheKey(ep.path, k.params)
        cl2 == IF write
               THEN [cl1 EXCEPT !.cache =
                       [x \in DOMAIN cl1.cache \cup {key} |->
                          IF x = key THEN [data |-> value, timestamp |-> t]
                          ELSE cl1.cache[x]]]
               ELSE cl1
    IN  IF ~has
        THEN Raise(cl1, k1, Error("UnboundLocal", 0, "result"), t)
        ELSE [cl |-> cl2,
              k |-> [k1 EXCEPT !.pc = "done", !.outcome = "ok", !.result = value,
                               !.wrote = write, !.tEnd = t,
                               !.ret = ToolReturn(k.kind, "ok")]]

\* lines 121-125: the except branch of attempt k.attempt
Failure(cl, k, e, islocal, t) ==
    LET k1 == [k EXCEPT !.fails = @ + 1, !.err = e,
                        !.local = IF islocal THEN @ + 1 ELSE @]
    IN  IF IsLastAttempt(k.attempt, cl.config.max_retries)
        THEN Raise(cl, k1, e, t)
        ELSE [cl |-> cl,
              k |-> [k1 EXCEPT !.pc = "sleep",
                               !.wake = t + Backoff(k.attempt),
                               !.sleeps = Append(@, Backoff(k.attempt))]]

\* lines 96-119: the loop header and the try body up to the request
Attempt(cl, k, closedS, t, b) ==
    IF k.attempt >= cl.config.max_retries
    THEN Finish(cl, k, FALSE, NoResult, t, b)
    ELSE IF Upper(k.endpoint.method) \notin {"GET", "POST"}
    THEN Failure(cl, k, Error("Unsupported", 0, k.endpoint.method), TRUE, t)
    ELSE IF cl.session = NoSession \/ cl.session \in closedS
    THEN Failure(cl, k, Error("Session", 0, "closed"), TRUE, t)
    ELSE [cl |-> cl,
          k |-> [k EXCEPT !.pc = "http", !.http = @ + 1, !.sess = cl.session,
                          !.reqs = Append(@, Request(k.endpoint, k.params,
                                                     cl.config, b))]]

\* call_api up to its first suspension
CallApi(cl, k, closedS, t, b) ==
    LET ep == k.endpoint
        key == GetCacheKey(ep.path, k.params)
        cached == /\ b = "main"
                  /\ k.use_cache
                  /\ key \in DOMAIN cl.cache
                  /\ IsCacheValid(cl.cache[key], cl.config.cache_ttl, t)
        cl1 == [cl EXCEPT !.rate_limits =
                   RateLimitsChecked(cl.rate_limits, ep.path, ep.rate_limit, t)]
    IN  IF cached
        THEN [cl |-> cl,
              k |-> [k EXCEPT !.pc = "done", !.outcome = "ok", !.hit = TRUE,
                              !.result = cl.cache[key].data, !.tEnd = t,
                              !.ret = ToolReturn(k.kind, "ok")]]
        ELSE IF ~CheckRateLimit(cl.rate_limits, ep.path, ep.rate_limit, t)
        THEN Raise(cl1, k, Error("RateLimit", 0, ep.path), t)
        ELSE Attempt(cl1, k, closedS, t, b)

(***************************************************************************)
(* ServiceRegistry and PlatformMCPServer                                   *)
(***************************************************************************)
\* ServiceRegistry.__init__
ServiceRegistry == [services |-> EmptyMap, clients |-> EmptyMap]

Put(map, key, value) ==
    [x \in DOMAIN map \cup {key} |-> IF x = key THEN value ELSE map[x]]

\* a registration that keeps the client of a name it already holds
RegisterService_KeepClient(registry, service_def, cid) ==
    IF ~service_def.enabled
    THEN registry
    ELSE [services |-> Put(registry.services, service_def.name, service_def),
          clients |-> IF service_def.name \in DOMAIN registry.clients
                      THEN registry.clients
                      ELSE Put(registry.clients, service_def.name, cid)]

\* a registration that unregisters the name of a disabled definition
RegisterService_DropDisabled(registry, service_def, cid) ==
    IF ~service_def.enabled
    THEN [services |-> [n \in DOMAIN registry.services \ {service_def.name} |->
                          registry.services[n]],
          clients |-> [n \in DOMAIN registry.clients \ {service_def.name} |->
                          registry.clients[n]]]
    ELSE [services |-> Put(registry.services, service_def.name, service_def),
          clients |-> Put(registry.clients, service_def.name, cid)]

\* a registration that stores a definition whatever its enabled flag
RegisterService_StoreDisabled(registry, service_def, cid) ==
    [services |-> Put(registry.services, service_def.name, service_def),
     clients |-> Put(registry.clients, service_def.name, cid)]

\* register_service; cid is the identity of the PlatformAPIClient it creates
RegisterService(registry, service_def, cid) ==
    IF ~service_def.enabled
    THEN registry
    ELSE [services |-> Put(registry.services, service_def.name, service_def),
          clients |-> Put(registry.clients, service_def.name, cid)]

\* the index in service_def.order of the first endpoint whose parameter
\* schema makes create_tool_func raise (param_info.get on a non-dict), or
\* Len + 1 when there is none
FirstBad(service_def) ==
    LET bad == {i \in 1..Len(service_def.order) :
                  service_def.endpoints[service_def.order[i]].parameters = "bad"}
    IN  IF bad = {} THEN Len(service_def.order) + 1
        ELSE CHOOSE i \in bad : \A j \in bad : i <= j

\* tool_name = f"{service_def.name}_{endpoint_name}"; the names of the model
\* hold no underscore, so the pair stands for the string
ToolName(service_name, endpoint_name) == <<service_name, endpoint_name>>

\* which definitions _create_service_tools is run for
BindsTools(service_def) == TRUE

\* _create_service_tools: the tools bound once it returns or raises
CreateServiceTools(bound, service_def) ==
    IF ~BindsTools(service_def) THEN bound
    ELSE bound \cup { ToolName(service_def.name, service_def.order[i]) :
                        i \in 1..(FirstBad(service_def) - 1) }

CreateServiceToolsRaises(service_def) ==
    BindsTools(service_def) /\ FirstBad(service_def) <= Len(service_def.order)

VARIABLES
    build,       \* which of the two copies of the code runs
    now,         \* time.time()
    services,    \* ServiceRegistry.services: name -> ServiceDefinition
    clients,     \* ServiceRegistry.clients: name -> client identity
    clientObjs,  \* the PlatformAPIClient objects, by identity
    tools,       \* the tools registered with FastMCP
    calls,       \* the invocations
    closed,      \* the sessions that were closed
    regLog,      \* the calls of register_service_from_config so far
    proc,        \* the process of main(): loading, serving, exited, crashed
    reg          \* the register_service that is between its two writes

vars == <<build, now, services, clients, clientObjs, tools, calls, closed, regLog,
          proc, reg>>

\* no register_service is between its two writes
NoReg == [file |-> "", name |-> ""]

CallIds == 1..MaxCalls

Init ==
    /\ build \in Builds
    /\ now = 0
    /\ services = ServiceRegistry.services
    /\ clients = ServiceRegistry.clients
    /\ clientObjs = EmptyMap
    /\ tools = {}
    /\ calls = [c \in CallIds |-> IdleCall]
    /\ closed = {}
    /\ regLog = <<>>
    /\ proc = "loading"
    /\ reg = NoReg

\* register_service_from_config(config_path), whoever calls it
RegisterFromConfig(f) ==
    /\ reg = NoReg
    /\ LET file == File(f)
           cid == Len(regLog) + 1
           registry == RegisterService([services |-> services, clients |-> clients],
                                       file.service_def, cid)
       IN  IF ParseOutcome(file, build) # "ok"
           THEN /\ regLog' = Append(regLog, [file |-> f, result |-> "raised"])
                /\ UNCHANGED <<services, clients, clientObjs, tools>>
           ELSE /\ services' = registry.services
                /\ clients' = registry.clients
                /\ clientObjs' =
                     IF registry.clients # clients
                     THEN Put(clientObjs, cid, PlatformAPIClient(file.service_config))
                     ELSE clientObjs
                /\ tools' = CreateServiceTools(tools, file.service_def)
                /\ regLog' = Append(regLog,
                     [file |-> f,
                      result |-> IF CreateServiceToolsRaises(file.service_def)
                                 THEN "raised" ELSE "ok"])
    /\ UNCHANGED <<build, now, calls, closed, reg>>

\* register_service_from_config(config_path) called by a caller that is not
\* main()
RegisterServiceFromConfig(f) ==
    /\ RegisterFromConfig(f)
    /\ UNCHANGED proc

\* main(): the try around register_service_from_config catches the
\* FileNotFoundError alone, writes a sample configuration and returns; every
\* other exception leaves main() and ends the process with a traceback.
Main(f) ==
    /\ proc = "loading"
    /\ RegisterFromConfig(f)
    /\ proc' = IF regLog'[Len(regLog')].result # "raised" THEN "loading"
               ELSE IF ParseOutcome(File(f), build) = "nofile" THEN "exited"
               ELSE "crashed"

\* main(): server.run(), reached when no registration raised
Run ==
    /\ proc = "loading"
    /\ regLog # <<>>
    /\ proc' = "serving"
    /\ UNCHANGED <<build, now, services, clients, clientObjs, tools, calls, closed,
                   regLog, reg>>

\* __aexit__ when the invocation is over
Closed(r) ==
    IF r.k.pc = "done" /\ r.cl.session # NoSession
    THEN closed \cup {r.cl.session}
    ELSE closed

\* get_client(name): the client, or None
GetClient(name) == IF name \in DOMAIN clients THEN clients[name] ELSE NoClient

\* ep_obj=endpoint, the default argument of create_tool_func: the descriptor
\* the tool function {svc}_{epn} was first bound with
CapturedEndpoint(svc, epn) ==
    LET regs == { i \in 1..Len(regLog) :
                    LET file == File(regLog[i].file)
                    IN  /\ ParseOutcome(file, build) = "ok"
                        /\ file.service_def.name = svc
                        /\ ToolName(svc, epn) \in CreateServiceTools({}, file.service_def) }
    IN  IF regs = {} THEN NoEndpoint
        ELSE File(regLog[CHOOSE i \in regs : \A j \in regs : i <= j].file)
                 .service_def.endpoints[epn]

\* a handler that calls the descriptor its tool function was bound with
EndpointObj_Captured(service, ep_name, ep_obj) == ep_obj

\* endpoint_obj = service.endpoints[ep_name]: the descriptor is looked up by
\* name in the definition the registry holds now; ep_obj serves the
\* signature and the docstring only
EndpointObj(service, ep_name, ep_obj) == service.endpoints[ep_name]

\* execute_api_call once get_client has returned cid: get_service, and on up
\* to the first suspension of call_api
StartWith(c, k0, cid) ==
    IF cid = NoClient \/ k0.svc \notin DOMAIN services
    THEN /\ calls' = [calls EXCEPT ![c] =
                        [k0 EXCEPT !.pc = "done", !.ret = "unavailable", !.tEnd = now]]
         /\ UNCHANGED <<clientObjs, closed>>
    ELSE IF k0.epn \notin DOMAIN services[k0.svc].endpoints
    THEN /\ calls' = [calls EXCEPT ![c] =
                        [k0 EXCEPT !.pc = "done", !.ret = "raised", !.tEnd = now,
                                   !.client = cid,
                                   !.err = Error("KeyError", 0, k0.epn)]]
         /\ UNCHANGED <<clientObjs, closed>>
    ELSE LET cl0 == [clientObjs[cid] EXCEPT !.session = c]
             k1 == [k0 EXCEPT !.client = cid,
                              !.endpoint =
                                  EndpointObj(services[k0.svc], k0.epn,
                                              CapturedEndpoint(k0.svc, k0.epn))]
             r == CallApi(cl0, k1, closed, now, build)
         IN  /\ calls' = [calls EXCEPT ![c] = r.k]
             /\ clientObjs' = [clientObjs EXCEPT ![cid] = r.cl]
             /\ closed' = Closed(r)

\* execute_api_call, up to the first suspension of call_api
Start(c, k0) == StartWith(c, k0, GetClient(k0.svc))

NextIdle(c) ==
    /\ calls[c].pc = "idle"
    /\ \A d \in CallIds : d < c => calls[d].pc # "idle"

\* the use_cache argument execute_api_call passes to call_api
ToolUseCache(b) == b = "main"

Loops == {"none", "idle", "running"}

\* a handler that always runs the coroutine on the loop of its own thread
Runner_AlwaysCaller(loop) == "caller"

\* lines 144-148, 167-175: on a running loop the coroutine goes to
\* asyncio.run in a worker thread and the handler waits for future.result();
\* otherwise to run_until_complete on the loop of the calling thread (a new
\* loop when get_event_loop raises)
Runner(loop) == IF loop = "running" THEN "worker" ELSE "caller"

\* handler_func(**kwargs) of the tool {svc}_{epn}, called on a thread whose
\* event loop is in state loop.  run_until_complete raises RuntimeError on a
\* loop that is running, before the coroutine starts.
HandlerFunc(c, svc, epn, params, loop) ==
    /\ NextIdle(c)
    /\ ToolName(svc, epn) \in tools
    /\ LET k0 == [IdleCall EXCEPT !.kind = "tool", !.svc = svc, !.epn = epn,
                                  !.params = params, !.t0 = now,
                                  !.use_cache = ToolUseCache(build),
                                  !.loop = loop, !.runner = Runner(loop)]
       IN  IF k0.runner = "caller" /\ loop = "running"
           THEN /\ calls' = [calls EXCEPT ![c] =
                     [k0 EXCEPT !.pc = "done", !.ret = "raised", !.tEnd = now,
                                !.err = Error("Runtime", 0, "loop is running")]]
                /\ UNCHANGED <<clientObjs, closed>>
           ELSE Start(c, k0)
    /\ UNCHANGED <<build, now, services, clients, tools, regLog, proc, reg>>

\* the agent layer calls the tool function on its own, running, event loop
InvokeTool(c, svc, epn, params) == HandlerFunc(c, svc, epn, params, "running")

\* use_cache: bool = True, the default of call_api
DefaultUseCache == TRUE

\* async with client: await client.call_api(endpoint, params), by a caller
\* other than the tool handler
InvokeApi(c, svc, epn, params) ==
    /\ NextIdle(c)
    /\ svc \in DOMAIN clients
    /\ svc \in DOMAIN services
    /\ epn \in DOMAIN services[svc].endpoints
    /\ Start(c, [IdleCall EXCEPT !.kind = "api", !.svc = svc, !.epn = epn,
                                 !.params = params, !.t0 = now,
                                 !.use_cache = DefaultUseCache])
    /\ UNCHANGED <<build, now, services, clients, tools, regLog, proc, reg>>

\* the request of call c is answered (or fails in transport)
Respond(c, response) ==
    /\ calls[c].pc = "http"
    /\ LET k == [calls[c] EXCEPT !.last = response]
           cl == clientObjs[k.client]
           h == HandleResponse(response, k.endpoint, build)
           r == IF h.ok
                THEN Finish(cl, k, TRUE, h.value, now, build)
                ELSE Failure(cl, k, h.err, FALSE, now)
       IN  /\ calls' = [calls EXCEPT ![c] = r.k]
           /\ clientObjs' = [clientObjs EXCEPT ![k.client] = r.cl]
           /\ closed' = Closed(r)
    /\ UNCHANGED <<build, now, services, clients, tools, regLog, proc, reg>>

\* asyncio.sleep returns: the next iteration of the loop
Wake(c) ==
    /\ calls[c].pc = "sleep"
    /\ calls[c].wake <= MaxTime
    /\ now' = IF now < calls[c].wake THEN calls[c].wake ELSE now
    /\ LET k == [calls[c] EXCEPT !.attempt = @ + 1]
           cl == clientObjs[k.client]
           r == Attempt(cl, k, closed, now', build)
       IN  /\ calls' = [calls EXCEPT ![c] = r.k]
           /\ clientObjs' = [clientObjs EXCEPT ![k.client] = r.cl]
           /\ closed' = Closed(r)
    /\ UNCHANGED <<build, services, clients, tools, regLog, proc, reg>>

(***************************************************************************)
(* The same operations at the grain of a thread switch: register_service   *)
(* makes two dictionary writes and execute_api_call two dictionary reads,  *)
(* with no lock; the handler runs execute_api_call in a worker thread, so  *)
(* a registration on another thread can run between them.                  *)
(***************************************************************************)
\* register_service_from_config up to self.services[name] = service_def
RegisterWriteServices(f) ==
    /\ reg = NoReg
    /\ LET file == File(f)
       IN  /\ ParseOutcome(file, build) = "ok"
           /\ file.service_def.enabled
           /\ services' = Put(services, file.service_def.name, file.service_def)
           /\ reg' = [file |-> f, name |-> file.service_def.name]
    /\ UNCHANGED <<build, now, clients, clientObjs, tools, calls, closed, regLog, proc>>

\* self.clients[name] = PlatformAPIClient(config), and the rest of
\* register_service_from_config
RegisterWriteClients ==
    /\ reg # NoReg
    /\ LET file == File(reg.file)
           cid == Len(regLog) + 1
       IN  /\ clients' = Put(clients, reg.name, cid)
           /\ clientObjs' = Put(clientObjs, cid, PlatformAPIClient(file.service_config))
           /\ tools' = CreateServiceTools(tools, file.service_def)
           /\ regLog' = Append(regLog,
                [file |-> reg.file,
                 result |-> IF CreateServiceToolsRaises(file.service_def)
                            THEN "raised" ELSE "ok"])
    /\ reg' = NoReg
    /\ UNCHANGED <<build, now, services, calls, closed, proc>>

\* handler_func up to client = self.registry.get_client(service_name)
LookupClient(c, svc, epn, params) ==
    /\ NextIdle(c)
    /\ ToolName(svc, epn) \in tools
    /\ calls' = [calls EXCEPT ![c] =
          [IdleCall EXCEPT !.pc = "lookup", !.kind = "tool", !.svc = svc, !.epn = epn,
                           !.params = params, !.t0 = now,
                           !.use_cache = ToolUseCache(build),
                           !.loop = "running", !.runner = Runner("running"),
                           !.client = GetClient(svc)]]
    /\ UNCHANGED <<build, now, services, clients, clientObjs, tools, closed, regLog,
                   proc, reg>>

\* service = self.registry.get_service(service_name), and on
LookupService(c) ==
    /\ calls[c].pc = "lookup"
    /\ StartWith(c, calls[c], calls[c].client)
    /\ UNCHANGED <<build, now, services, clients, tools, regLog, proc, reg>>

\* time passes
Tick ==
    /\ now + TickStep <= MaxTime
    /\ now' = now + TickStep
    /\ UNCHANGED <<build, services, clients, clientObjs, tools, calls, closed, regLog,
                   proc, reg>>

\* no invocation is under way
Sequential == \A d \in CallIds : calls[d].pc \in {"idle", "done"}

\* Invocations follow one another; registrations and the clock interleave
\* with them freely.
Next ==
    \/ \E f \in ConfigFiles : Len(regLog) < MaxRegs /\ RegisterServiceFromConfig(f)
    \/ \E c \in CallIds, svc \in ServiceNames, epn \in EndpointNames, params \in Params :
          Sequential /\ InvokeTool(c, svc, epn, params)
    \/ \E c \in CallIds, svc \in ServiceNames, epn \in EndpointNames, params \in Params :
          Sequential /\ InvokeApi(c, svc, epn, params)
    \/ \E c \in CallIds, response \in Responses : Respond(c, response)
    \/ \E c \in CallIds : Wake(c)
    \/ Tick

Spec == Init /\ [][Next]_vars

\* The retry loop: MaxLoads registrations and MaxTries invocations, with
\* every configuration file and endpoint, and more answers of the backend.
RetryResponses ==
    Responses \cup {Response(200, "notjson"), Response(500, "E2")}

NextRetry ==
    \/ \E f \in ConfigFiles : Len(regLog) < MaxLoads /\ RegisterServiceFromConfig(f)
    \/ \E c \in 1..MaxTries, svc \in ServiceNames, epn \in EndpointNames :
          Sequential /\ InvokeTool(c, svc, epn, "p1")
    \/ \E c \in 1..MaxTries, svc \in ServiceNames, epn \in EndpointNames :
          Sequential /\ InvokeApi(c, svc, epn, "p1")
    \/ \E c \in CallIds, response \in RetryResponses : Respond(c, response)
    \/ \E c \in CallIds : Wake(c)
    \/ Tick

SpecRetry == Init /\ [][NextRetry]_vars

\* The registry: the calls of register_service_from_config alone.
NextRegistry ==
    \/ \E f \in ConfigFiles : Len(regLog) < MaxRegs /\ RegisterServiceFromConfig(f)
    \/ Tick

SpecRegistry == Init /\ [][NextRegistry]_vars

\* The rate limiter: the services with a limited endpoint, loaded MaxLoads
\* times, and MaxCalls invocations of their first endpoint.
LimitFiles == {"A1", "B1", "B0"}

NextLimit ==
    \/ \E f \in LimitFiles : Len(regLog) < MaxLoads /\ RegisterServiceFromConfig(f)
    \/ \E c \in CallIds, svc \in ServiceNames :
          Sequential /\ InvokeTool(c, svc, "e1", "p1")
    \/ \E c \in CallIds, svc \in ServiceNames :
          Sequential /\ InvokeApi(c, svc, "e1", "p1")
    \/ \E c \in CallIds, response \in Responses : Respond(c, response)
    \/ \E c \in CallIds : Wake(c)
    \/ Tick

SpecLimit == Init /\ [][NextLimit]_vars

\* Response normalisation: one service, MaxTries invocations, answered with
\* every shape of body.
NormalizeFiles == {"A1", "A2", "B3"}

NormalizeResponses ==
    { Response(200, b) : b \in {"L1", "nodata", "datanull", "nolist", "listnull",
                                "datastr", "array", "notjson"} }
        \cup {Response(404, "E1")}

NextNormalize ==
    \/ \E f \in NormalizeFiles : Len(regLog) < MaxLoads /\ RegisterServiceFromConfig(f)
    \/ \E c \in 1..MaxTries, svc \in ServiceNames :
          Sequential /\ InvokeTool(c, svc, "e1", "p1")
    \/ \E c \in 1..MaxTries, svc \in ServiceNames :
          Sequential /\ InvokeApi(c, svc, "e1", "p1")
    \/ \E c \in CallIds, response \in NormalizeResponses : Respond(c, response)
    \/ \E c \in CallIds : Wake(c)
    \/ Tick

SpecNormalize == Init /\ [][NextNormalize]_vars

\* Requests: the services with POST endpoints, MaxTries invocations.
RequestFiles == {"A1", "A2", "B2", "B3"}

RequestResponses == {Response(200, "L1"), Response(404, "E1")}

NextRequest ==
    \/ \E f \in RequestFiles : Len(regLog) < MaxLoads /\ RegisterServiceFromConfig(f)
    \/ \E c \in 1..MaxTries, svc \in ServiceNames, epn \in EndpointNames, params \in Params :
          Sequential /\ InvokeTool(c, svc, epn, params)
    \/ \E c \in 1..MaxTries, svc \in ServiceNames, epn \in EndpointNames, params \in Params :
          Sequential /\ InvokeApi(c, svc, epn, params)
    \/ \E c \in CallIds, response \in RequestResponses : Respond(c, response)
    \/ \E c \in CallIds : Wake(c)
    \/ Tick

SpecRequest == Init /\ [][NextRequest]_vars

\* The bridge from the synchronous handler to the coroutine: MaxTries tool
\* invocations, from threads with and without an event loop.
NextBridge ==
    \/ \E f \in ConfigFiles : Len(regLog) < MaxLoads /\ RegisterServiceFromConfig(f)
    \/ \E c \in 1..MaxTries, svc \in ServiceNames, epn \in EndpointNames, loop \in Loops :
          Sequential /\ HandlerFunc(c, svc, epn, "p1", loop)
    \/ \E c \in CallIds, response \in Responses : Respond(c, response)
    \/ \E c \in CallIds : Wake(c)
    \/ Tick

SpecBridge == Init /\ [][NextBridge]_vars

\* A reload on one thread while tool invocations run on another.
ConcFiles == {"A1", "A2", "B0"}

NextConc ==
    \/ \E f \in ConcFiles : Len(regLog) < MaxRegs /\ RegisterWriteServices(f)
    \/ RegisterWriteClients
    \/ \E c \in 1..MaxTries, svc \in ServiceNames, epn \in EndpointNames :
          Sequential /\ LookupClient(c, svc, epn, "p1")
    \/ \E c \in CallIds : LookupService(c)
    \/ \E c \in CallIds, response \in Responses : Respond(c, response)
    \/ \E c \in CallIds : Wake(c)
    \/ Tick

SpecConc == Init /\ [][NextConc]_vars

\* Reloads: MaxRegs registrations of the files of service a, interleaved
\* with MaxTries invocations of its endpoints.
ReloadFiles == {"A1", "A2", "A0", "J"}

NextReload ==
    \/ \E f \in ReloadFiles : Len(regLog) < MaxRegs /\ RegisterServiceFromConfig(f)
    \/ \E c \in 1..MaxTries, epn \in EndpointNames :
          Sequential /\ InvokeTool(c, "a", epn, "p1")
    \/ \E c \in 1..MaxTries, epn \in EndpointNames :
          Sequential /\ InvokeApi(c, "a", epn, "p1")
    \/ \E c \in CallIds, response \in Responses : Respond(c, response)
    \/ \E c \in CallIds : Wake(c)
    \/ Tick

SpecReload == Init /\ [][NextReload]_vars

\* The program of src/main.py: main() registers MaxLoads files and runs the
\* server, which then serves MaxTries tool invocations.
MainFiles == ConfigFiles \cup {"N"}

InitMain == Init /\ build = "main"

NextMain ==
    \/ \E f \in MainFiles : Len(regLog) < MaxLoads /\ Main(f)
    \/ Run
    \/ \E c \in 1..MaxTries, svc \in ServiceNames, epn \in EndpointNames, params \in Params :
          proc = "serving" /\ Sequential /\ InvokeTool(c, svc, epn, params)
    \/ \E c \in CallIds, response \in Responses : Respond(c, response)
    \/ \E c \in CallIds : Wake(c)
    \/ Tick

SpecMain == InitMain /\ [][NextMain]_vars

\* Overlapping invocations: MaxCalls invocations of the first endpoint of a
\* service, each free to start while another is suspended on the network or
\* in a backoff.
OverlapFiles == {"A1", "B1"}

OverlapResponses == {Response(200, "L1"), Response(0, "reset")}

NextOverlap ==
    \/ \E f \in OverlapFiles : Len(regLog) < MaxLoads /\ RegisterServiceFromConfig(f)
    \/ \E c \in CallIds, svc \in ServiceNames : InvokeTool(c, svc, "e1", "p1")
    \/ \E c \in CallIds, svc \in ServiceNames : InvokeApi(c, svc, "e1", "p1")
    \/ \E c \in CallIds, response \in OverlapResponses : Respond(c, response)
    \/ \E c \in CallIds : Wake(c)
    \/ Tick

SpecOverlap == Init /\ [][NextOverlap]_vars

\* The rate-limit check: the limits 1, 2, 0 and None, MaxLoads registrations
\* and MaxCalls invocations.
CheckFiles == {"A1", "B1", "B4"}

NextCheck ==
    \/ \E f \in CheckFiles : Len(regLog) < MaxLoads /\ RegisterServiceFromConfig(f)
    \/ \E c \in CallIds, svc \in ServiceNames, epn \in EndpointNames :
          Sequential /\ InvokeTool(c, svc, epn, "p1")
    \/ \E c \in CallIds, svc \in ServiceNames, epn \in EndpointNames :
          Sequential /\ InvokeApi(c, svc, epn, "p1")
    \/ \E c \in CallIds, response \in OverlapResponses : Respond(c, response)
    \/ \E c \in CallIds : Wake(c)
    \/ Tick

SpecCheck == Init /\ [][NextCheck]_vars

\* Endpoints that share a path: MaxLoads registrations and MaxCalls
\* invocations of the endpoints of one service.
SharedPathFiles == {"A3", "B1"}

NextSharedPath ==
    \/ \E f \in SharedPathFiles : Len(regLog) < MaxLoads /\ RegisterServiceFromConfig(f)
    \/ \E c \in CallIds, svc \in ServiceNames, epn \in EndpointNames :
          Sequential /\ InvokeTool(c, svc, epn, "p1")
    \/ \E c \in CallIds, svc \in ServiceNames, epn \in EndpointNames :
          Sequential /\ InvokeApi(c, svc, epn, "p1")
    \/ \E c \in CallIds, response \in OverlapResponses : Respond(c, response)
    \/ \E c \in CallIds : Wake(c)
    \/ Tick

SpecSharedPath == Init /\ [][NextSharedPath]_vars

(***************************************************************************)
(* Claims                                                                  *)
(***************************************************************************)
\* the calls of call_api: the invocations that resolved a client and an
\* endpoint
Called(k) == k.pc # "idle" /\ k.endpoint # NoEndpoint

\* the invocations of the same endpoint on the same client as k, made
\* (whatever their outcome) less than a window before time t
MadeWithin(k, t) ==
    { d \in CallIds : /\ Called(calls[d])
                      /\ calls[d].client = k.client
                      /\ calls[d].endpoint = k.endpoint
                      /\ t - calls[d].t0 < Window }

\* those that returned a result of the backend (no cache hit) less than a
\* window before time t
SucceededWithin(k, t) ==
    { d \in CallIds : /\ calls[d].pc = "done"
                      /\ calls[d].client = k.client
                      /\ calls[d].endpoint = k.endpoint
                      /\ calls[d].outcome = "ok"
                      /\ ~calls[d].hit
                      /\ t - calls[d].tEnd < Window }

\* call c starts in this step, on an endpoint with a limit, and is not
\* answered from the cache
StartsLimited(c) ==
    /\ calls[c].pc = "idle"
    /\ Called(calls'[c])
    /\ calls'[c].endpoint.rate_limit # None
    /\ ~calls'[c].hit

RejectedByLimit(k) ==
    k.pc = "done" /\ k.outcome = "exc" /\ k.err.type = "RateLimit" /\ k.http = 0

C2_NeverRetried ==
    \A c \in CallIds :
        calls[c].err.type \in {"RateLimit", "Unsupported"}
        => /\ calls[c].pc = "done"
           /\ calls[c].sleeps = <<>>
           /\ calls[c].attempt = 0

\* C3 as stated: every tool bound with the agent layer is an endpoint of a
\* definition that was loaded with enabled = true.
C3_DisabledBindsNoTool ==
    \A t \in tools :
        \E i \in 1..Len(regLog) :
            LET d == File(regLog[i].file).service_def
            IN  /\ d.enabled
                /\ \E e \in DOMAIN d.endpoints : t = ToolName(d.name, e)

\* C4 as stated: a finished tool invocation handed a string back; no
\* exception left handler_func.
C4_ToolNeverRaises ==
    \A c \in CallIds :
        (calls[c].kind = "tool" /\ calls[c].pc = "done")
        => calls[c].ret \in {"json", "failmsg", "unavailable"}

\* every attempt of k so far was answered by the backend (none failed before
\* a request was sent)
AllAnswered(k) == Called(k) /\ ~k.hit /\ k.local = 0 /\ k.last # NoResp

Handled(k) == HandleResponse(k.last, k.endpoint, build)

MaxRetries(k) == clientObjs[k.client].config.max_retries

Delays(n) == [i \in 1..n |-> 2 ^ (i - 1)]

\* C5: when the attempts before the k-th failed and the k-th succeeds, the
\* call is over, returns the payload of that response, has sent exactly k
\* requests and has slept k-1 times, for 1, 2, 4, ... seconds.
C5_RetryUntilSuccess ==
    \A c \in CallIds :
        LET k == calls[c]
        IN  (AllAnswered(k) /\ Handled(k).ok)
            => /\ k.pc = "done"
               /\ k.outcome = "ok"
               /\ k.result = Handled(k).value
               /\ k.http = k.fails + 1
               /\ k.http <= MaxRetries(k)
               /\ k.sleeps = Delays(k.fails)

C5_Witness ==
    \E c \in CallIds :
        /\ AllAnswered(calls[c])
        /\ calls[c].outcome = "ok"
        /\ calls[c].fails = 2
        /\ calls[c].http = 3
        /\ calls[c].sleeps = <<1, 2>>

EnabledRegs(n) ==
    { i \in 1..Len(regLog) :
         LET file == File(regLog[i].file)
         IN  /\ ParseOutcome(file, build) = "ok"
             /\ file.service_def.enabled
             /\ file.service_def.name = n }

Latest(S) == CHOOSE i \in S : \A j \in S : j <= i

\* C7: the two maps have the same keys, the names registered with an enabled
\* definition, and hold for each the definition and the client of the
\* latest such registration.
C7_RegistryConsistent ==
    /\ DOMAIN services = DOMAIN clients
    /\ DOMAIN services = { n \in ServiceNames : EnabledRegs(n) # {} }
    /\ \A n \in DOMAIN services :
          LET i == Latest(EnabledRegs(n))
          IN  /\ services[n] = File(regLog[i].file).service_def
              /\ clients[n] = i
              /\ clientObjs[clients[n]].config = File(regLog[i].file).service_config

C7_Witness ==
    \E n \in DOMAIN services :
        /\ Cardinality(EnabledRegs(n)) = 2
        /\ clients[n] = 2
        /\ services[n] # File(regLog[1].file).service_def

\* C8 as stated: a cache-enabled call with the endpoint and parameters of an
\* earlier successful one, made less than cache_ttl after it, returns the
\* same payload, sends no request and records no timestamp.
C8_SecondCallFromCache ==
    \A c, d \in CallIds :
        (/\ d < c
         /\ calls[d].pc = "done" /\ calls[d].outcome = "ok" /\ calls[d].use_cache
         /\ Called(calls[c]) /\ calls[c].use_cache
         /\ calls[c].client = calls[d].client
         /\ calls[c].endpoint = calls[d].endpoint
         /\ calls[c].params = calls[d].params
         /\ calls[c].t0 - calls[d].tEnd <
               clientObjs[calls[c].client].config.cache_ttl)
        => /\ calls[c].pc = "done"
           /\ calls[c].result = calls[d].result
           /\ calls[c].http = 0
           /\ ~calls[c].stamped

\* C9 as stated: a tool invocation is never answered from the cache and
\* writes no cache entry; when it returns a result it has sent a request.
C9_ToolBypassesCache ==
    \A c \in CallIds :
        (calls[c].kind = "tool" /\ Called(calls[c]))
        => /\ ~calls[c].hit
           /\ ~calls[c].wrote
           /\ (calls[c].outcome = "ok" => calls[c].http >= 1)

\* C10 as stated: a register_service_from_config that raises leaves the
\* services and clients maps as they were.
C10_NoPartialRegistration ==
    [][(/\ Len(regLog') = Len(regLog) + 1
        /\ regLog'[Len(regLog')].result = "raised")
       => (services' = services /\ clients' = clients)]_vars

\* C11 as stated: a registration that raised (unreadable file, malformed
\* JSON, missing key, bad field) has not ended the process: main() goes on
\* to register the other files and to serve.
C11_ConfigErrorSurvived ==
    \A i \in 1..Len(regLog) :
        regLog[i].result = "raised" => proc \in {"loading", "serving"}

\* this step registers an enabled definition under the name n, which the
\* registry already holds
Reloads(n) ==
    /\ Len(regLog') = Len(regLog) + 1
    /\ n \in DOMAIN clients
    /\ LET file == File(regLog'[Len(regLog')].file)
       IN  /\ ParseOutcome(file, build) = "ok"
           /\ file.service_def.enabled
           /\ file.service_def.name = n

\* every timestamp and every cache entry of the client registered under n
\* was recorded by a call made on that very client
OwnState(n) ==
    LET cid == clients[n]
        cl == clientObjs[cid]
    IN  /\ \A p \in DOMAIN cl.rate_limits :
              \A i \in 1..Len(cl.rate_limits[p]) :
                  \E d \in CallIds : /\ calls[d].client = cid
                                     /\ calls[d].stamped
                                     /\ calls[d].endpoint.path = p
                                     /\ calls[d].tEnd = cl.rate_limits[p][i]
        /\ \A key \in DOMAIN cl.cache :
              \E d \in CallIds : /\ calls[d].client = cid
                                 /\ calls[d].wrote
                                 /\ GetCacheKey(calls[d].endpoint.path, calls[d].params) = key
                                 /\ calls[d].tEnd = cl.cache[key].timestamp

\* C12: a reload of an enabled definition under an existing name puts a new
\* client object under the name, with an empty cache and empty windows; and
\* the registered client never holds a timestamp or a cache entry that was
\* not recorded by a call on itself.
C12_ReloadResetsClient ==
    [][/\ \A n \in ServiceNames :
             Reloads(n) => /\ clients'[n] # clients[n]
                           /\ clients'[n] \notin DOMAIN clientObjs
                           /\ clientObjs'[clients'[n]].cache = EmptyMap
                           /\ clientObjs'[clients'[n]].rate_limits = EmptyMap
                           /\ clientObjs'[clients'[n]].session = NoSession
       /\ \A n \in DOMAIN clients' : OwnState(n)']_vars

\* the client of the first registration holds a timestamp, and the client
\* now registered under its name is another one, with nothing in it
C12_Witness ==
    \E n \in DOMAIN clients :
        /\ 1 \in EnabledRegs(n)
        /\ clients[n] # 1
        /\ \E p \in DOMAIN clientObjs[1].rate_limits : clientObjs[1].rate_limits[p] # <<>>
        /\ clientObjs[clients[n]].rate_limits = EmptyMap
        /\ clientObjs[clients[n]].cache = EmptyMap

\* the loads of a definition named n, enabled or not
LoadsOf(n) ==
    { i \in 1..Len(regLog) :
         LET file == File(regLog[i].file)
         IN  ParseOutcome(file, build) = "ok" /\ file.service_def.name = n }

\* the registry holds no service n, or the definition of n loaded last is
\* disabled
MissingOrDisabled(n) ==
    \/ n \notin DOMAIN services
    \/ n \notin DOMAIN clients
    \/ /\ LoadsOf(n) # {}
       /\ ~File(regLog[Latest(LoadsOf(n))].file).service_def.enabled

\* C13 as stated: a tool invoked while its service is missing from the
\* registry, or while the definition loaded last for it is disabled, returns
\* the 'service unavailable' string at once and sends no request.
C13_UnavailableWhenDisabled ==
    [][\A c \in CallIds :
          (/\ calls[c].pc = "idle"
           /\ calls'[c].pc # "idle"
           /\ calls'[c].kind = "tool"
           /\ MissingOrDisabled(calls'[c].svc))
          => /\ calls'[c].pc = "done"
             /\ calls'[c].ret = "unavailable"
             /\ calls'[c].http = 0]_vars

\* C14 as stated: an attempt that was answered with a status outside
\* 200..299 (or failed in transport) counted as a failure: the call did not
\* return a result from it.  (k.last is the answer to the latest request
\* once no request is in flight.)
C14_Non2xxFails ==
    \A c \in CallIds :
        LET k == calls[c]
        IN  (k.last # NoResp /\ k.pc # "http" /\ k.last.status \notin 200..299)
            => /\ k.outcome # "ok"
               /\ k.fails = k.http

\* the value at data.list of a parsed body, "empty" (the empty list) when
\* the data key or the list key is absent or null
DataList(body) == IF body \in {"L1", "L2"} THEN body ELSE "empty"

\* C15 as stated: a call that ended on a 2xx response whose body is JSON has
\* returned data.list of the body (the empty list when data or list is
\* absent, whatever the shape of the body) for a json-tagged endpoint, and
\* {content: body} for a raw-tagged one.
C15_DataListOrEmpty ==
    \A c \in CallIds :
        LET k == calls[c]
        IN  (/\ Called(k) /\ k.pc = "done" /\ ~k.hit
             /\ k.last.status \in 200..299
             /\ k.last.body # "notjson")
            => /\ k.outcome = "ok"
               /\ k.result = IF k.endpoint.response_format = "json"
                             THEN <<"list", DataList(k.last.body)>>
                             ELSE <<"content", k.last.body>>

IsFormPost(endpoint) ==
    Upper(endpoint.method) = "POST" /\ endpoint.content_type = "form-data"

\* C16: every request of a call, first attempt or retry, carries the
\* caller's parameters; for a POST endpoint with content_type form-data it
\* is a form that also holds the field appKey with the api_key of the
\* service, and for every other endpoint it carries nothing else.
C16_FormCarriesAppKey ==
    \A c \in CallIds :
        LET k == calls[c]
        IN  /\ Len(k.reqs) = k.http
            /\ \A i \in 1..Len(k.reqs) :
                  /\ k.reqs[i].params = k.params
                  /\ IF IsFormPost(k.endpoint)
                     THEN /\ k.reqs[i].via = "form"
                          /\ k.reqs[i].extra =
                                {<<"appKey", clientObjs[k.client].config.api_key>>}
                     ELSE /\ k.reqs[i].via \in {"query", "json"}
                          /\ k.reqs[i].extra = {}

\* a form-data POST that was retried, and a JSON POST
C16_Witness ==
    /\ \E c \in CallIds :
          /\ IsFormPost(calls[c].endpoint)
          /\ Len(calls[c].reqs) = 2
          /\ calls[c].reqs[2].extra = {<<"appKey", "keyB2">>}

\* C17 as stated: the session of a registered client is never closed, and
\* all the requests of the calls made on one client go through one session.
C17_OneSessionPerClient ==
    /\ \A n \in DOMAIN clients : clientObjs[clients[n]].session \notin closed
    /\ \A c, d \in CallIds :
          (/\ calls[c].client = calls[d].client
           /\ calls[c].sess # NoSession
           /\ calls[d].sess # NoSession)
          => calls[c].sess = calls[d].sess

\* C18: a tool handler has returned (or raised) only when its coroutine is
\* over, and the coroutine did run: the handler did not fail on the event
\* loop before starting it; called on a running loop, it ran the coroutine
\* in a worker thread, never on that loop.
C18_HandlerWaitsForCall ==
    \A c \in CallIds :
        LET k == calls[c]
        IN  (k.kind = "tool" /\ k.pc # "idle")
            => /\ k.loop = "running" => k.runner = "worker"
               /\ k.ret # "none" => (k.pc = "done" /\ k.err.type # "Runtime")
               /\ k.pc = "done" => k.ret # "none"
               /\ k.pc \in {"http", "sleep"} => k.ret = "none"

\* a handler called on a running loop that returned the result of a call
\* which was suspended twice on the network and once in a backoff
C18_Witness ==
    \E c \in CallIds :
        /\ calls[c].kind = "tool"
        /\ calls[c].loop = "running"
        /\ calls[c].runner = "worker"
        /\ calls[c].ret = "json"
        /\ calls[c].http = 2

\* list_services()
ListServices == DOMAIN services

\* C19: no step removes a name from the registry: a name list_services()
\* returns is returned in every later state, and keeps a client.
C19_RegistryNeverShrinks ==
    [][/\ ListServices \subseteq ListServices'
       /\ DOMAIN clients \subseteq DOMAIN clients']_vars

\* a registered name whose definition was loaded again later, disabled or
\* with a failure, is still listed
C19_Witness ==
    \E n \in ListServices :
        \E i, j \in 1..Len(regLog) :
            /\ i < j
            /\ i \in EnabledRegs(n)
            /\ j \in LoadsOf(n)
            /\ \/ ~File(regLog[j].file).service_def.enabled
               \/ regLog[j].result = "raised"

\* C20 as stated: the endpoint a tool invocation calls is the one of the
\* definition that was registered together with the client it uses.
C20_NoTornRead ==
    \A c \in CallIds :
        LET k == calls[c]
        IN  (k.kind = "tool" /\ Called(k))
            => /\ k.client \in 1..Len(regLog)
               /\ LET d == File(regLog[k.client].file).service_def
                  IN  /\ k.epn \in DOMAIN d.endpoints
                      /\ k.endpoint = d.endpoints[k.epn]

\* the calls of the endpoint path of k on the client of k that passed the
\* rate-limit check and reached the HTTP request less than a window before
\* or after the check of k
AdmittedAround(k) ==
    { d \in CallIds : /\ Called(calls[d])
                      /\ calls[d].client = k.client
                      /\ calls[d].endpoint.path = k.endpoint.path
                      /\ calls[d].http >= 1
                      /\ calls[d].t0 - k.t0 < Window
                      /\ k.t0 - calls[d].t0 < Window }

\* the timestamps of path p the client cid holds that are younger than a
\* window
YoungStamps(cid, p) ==
    IF p \in DOMAIN clientObjs[cid].rate_limits
    THEN Len(Prune(clientObjs[cid].rate_limits[p], now))
    ELSE 0

\* C21 as stated: whatever the interleaving of the calls of one endpoint on
\* one client, at most N of them pass the check and reach the HTTP request
\* within a window of 60 seconds, and no timestamp is lost: every call that
\* recorded one less than a window ago has it in the window.
C21_AtMostNAdmitted ==
    \A c \in CallIds :
        LET k == calls[c]
        IN  (Called(k) /\ Truthy(k.endpoint.rate_limit))
            => /\ k.http >= 1 =>
                     Cardinality(AdmittedAround(k)) <= k.endpoint.rate_limit
               /\ Cardinality({ d \in CallIds : /\ calls[d].stamped
                                                /\ calls[d].client = k.client
                                                /\ calls[d].endpoint.path = k.endpoint.path
                                                /\ now - calls[d].tEnd < Window })
                     <= YoungStamps(k.client, k.endpoint.path)

\* this step is a register_service_from_config that reached register_service
\* with a definition whose enabled flag is false
RegistersDisabled ==
    /\ Len(regLog') = Len(regLog) + 1
    /\ LET file == File(regLog'[Len(regLog')].file)
       IN  ParseOutcome(file, build) = "ok" /\ ~file.service_def.enabled

\* C22: register_service with a disabled definition leaves the services and
\* clients maps (and the client objects) as they were, and every definition
\* the registry holds, hence every name of list_services(), is enabled.
C22_DisabledIsNoOp ==
    [][/\ RegistersDisabled => /\ services' = services
                               /\ clients' = clients
                               /\ clientObjs' = clientObjs
       /\ \A n \in ListServices' : services'[n].enabled]_vars

\* the latest registration was of a disabled definition whose name the
\* registry held already, and the registry still holds the enabled
\* definition and the client of the earlier one
C22_Witness ==
    /\ Len(regLog) = 2
    /\ LET first == File(regLog[1].file)
           last == File(regLog[2].file)
       IN  /\ ParseOutcome(first, build) = "ok"
           /\ ParseOutcome(last, build) = "ok"
           /\ first.service_def.enabled
           /\ ~last.service_def.enabled
           /\ last.service_def.name = first.service_def.name
           /\ services = Endpoints1(first.service_def.name, first.service_def)
           /\ clients = Endpoints1(first.service_def.name, 1)

\* call c starts in this step and is not answered from the cache
StartsCall(c) ==
    /\ calls[c].pc = "idle"
    /\ Called(calls'[c])
    /\ ~calls'[c].hit

\* C23 as stated: a call of an endpoint with a configured limit, 0 included,
\* is admitted iff the timestamps of its window younger than 60 seconds are
\* fewer than the limit, and the check leaves no older timestamp in the
\* window; a call of an endpoint without a limit is always admitted.
C23_AdmitIffBelowLimit ==
    [][\A c \in CallIds :
          StartsCall(c) =>
             LET k == calls'[c]
                 limit == k.endpoint.rate_limit
                 path == k.endpoint.path
             IN  IF limit = None
                 THEN ~RejectedByLimit(k)
                 ELSE /\ RejectedByLimit(k) <=> ~(YoungStamps(k.client, path) < limit)
                      /\ path \in DOMAIN clientObjs'[k.client].rate_limits =>
                            \A i \in 1..Len(clientObjs'[k.client].rate_limits[path]) :
                               now - clientObjs'[k.client].rate_limits[path][i] < Window]_vars

\* the number of timestamps the client cid of objs holds for path p
WindowLen(objs, cid, p) ==
    IF p \in DOMAIN objs[cid].rate_limits THEN Len(objs[cid].rate_limits[p]) ELSE 0

\* call c ends in this step, not on a cache hit
EndsCall(c) ==
    /\ calls[c].pc # "done"
    /\ calls'[c].pc = "done"
    /\ Called(calls'[c])
    /\ ~calls'[c].hit

\* C24 as stated: the step that ends a call adds one timestamp to the window
\* of its endpoint when the call returned a result and the endpoint has a
\* limit, and none otherwise (what the check pruned aside); and a call that
\* failed wrote no cache entry.
C24_WindowFollowsOutcome ==
    [][\A c \in CallIds :
          EndsCall(c) =>
             LET k == calls'[c]
                 path == k.endpoint.path
                 before == IF calls[c].pc = "idle" /\ Truthy(k.endpoint.rate_limit)
                           THEN YoungStamps(k.client, path)
                           ELSE WindowLen(clientObjs, k.client, path)
                 grows == k.outcome = "ok" /\ k.endpoint.rate_limit # None
             IN  /\ WindowLen(clientObjs', k.client, path) =
                       before + (IF grows THEN 1 ELSE 0)
                 /\ k.outcome # "ok" =>
                       clientObjs'[k.client].cache = clientObjs[k.client].cache]_vars

\* the latest request of call k was answered, and _handle_response returned
\* a value for the answer
RequestSucceeded(k) ==
    /\ k.http >= 1
    /\ k.last # NoResp
    /\ HandleResponse(k.last, k.endpoint, build).ok

\* C27 as stated: a call that returned a result (not from the cache) or
\* recorded a timestamp did so after a request of it succeeded; and with
\* max_retries = 0 a call that passed the check sends no request, fails with
\* an error of call_api's own and leaves the window as it was.
C27_NoResultWithoutRequest ==
    \A c \in CallIds :
        LET k == calls[c]
        IN  (Called(k) /\ ~k.hit)
            => /\ (k.outcome = "ok" \/ k.stamped) => RequestSucceeded(k)
               /\ (/\ k.pc = "done"
                   /\ clientObjs[k.client].config.max_retries = 0
                   /\ ~RejectedByLimit(k))
                  => /\ k.http = 0
                     /\ k.outcome = "exc"
                     /\ k.err.type \notin {"none", "UnboundLocal"}
                     /\ ~k.stamped

\* C25: a tool invoked when enabled definitions of its service were
\* registered calls the endpoint that the latest of them gives for the
\* endpoint name, on the client of that registration; when the latest
\* definition has no endpoint of that name, the invocation sends nothing.
C25_LatestDefinitionUsed ==
    [][\A c \in CallIds :
          (/\ calls[c].pc = "idle"
           /\ calls'[c].pc # "idle"
           /\ calls'[c].kind = "tool"
           /\ EnabledRegs(calls'[c].svc) # {})
          => LET k == calls'[c]
                 i == Latest(EnabledRegs(k.svc))
                 d == File(regLog[i].file).service_def
             IN  IF k.epn \in DOMAIN d.endpoints
                 THEN /\ k.client = i
                      /\ k.endpoint = d.endpoints[k.epn]
                 ELSE /\ k.pc = "done"
                      /\ k.http = 0]_vars

\* a tool bound with one descriptor was invoked after a reload that gave its
\* endpoint name another descriptor: the request went out with the new
\* descriptor, on the new client
C25_Witness ==
    \E c \in CallIds :
        LET k == calls[c]
        IN  /\ k.kind = "tool"
            /\ k.http >= 1
            /\ k.client = 2
            /\ CapturedEndpoint(k.svc, k.epn) \notin {NoEndpoint, k.endpoint}
            /\ k.endpoint = File(regLog[2].file).service_def.endpoints[k.epn]

\* C26 as stated: a call of endpoint E with limit N that was rejected by the
\* rate limit was made when at least N calls of E itself, on the same
\* client, had returned a result in the preceding 60 seconds.
C26_OnlyOwnCallsCount ==
    \A c \in CallIds :
        RejectedByLimit(calls[c])
        => Cardinality(SucceededWithin(calls[c], calls[c].t0) \ {c})
              >= calls[c].endpoint.rate_limit

\* C28 as stated: a request in flight goes through a session that is open
\* and is still the session of its client (no other invocation has closed
\* it or put another in the field), no attempt finds the session closed,
\* and once every invocation is over every session that was opened is
\* closed.
C28_SessionNotShared ==
    /\ \A c \in CallIds :
          LET k == calls[c]
          IN  /\ k.pc = "http" => /\ k.sess \notin closed
                                  /\ clientObjs[k.client].session = k.sess
              /\ k.err.type # "Session"
    /\ (\A d \in CallIds : calls[d].pc \in {"idle", "done"})
          => \A c \in CallIds : Called(calls[c]) => c \in closed

====
